---- MODULE Spec2Model ----
(***************************************************************************)
(* Model of the ICMP ping sweep tool, src/Network Tools/Ping Sweep/        *)
(* ping-sweep.py: range resolution (get_ip_range, ipaddress.hosts()), the  *)
(* probe primitive (ping_host), the sweep thread (start_sweep) with its    *)
(* ThreadPoolExecutor / as_completed collection, and the GUI entry points  *)
(* (threaded_sweep, closing the main window).                              *)
(*                                                                         *)
(* Addresses are AddrBits-bit integers (IPv4 scaled down); the worker      *)
(* budget MAX_WORKERS is scaled down from 50 so that "more candidates than *)
(* workers" is reachable.                                                  *)
(***************************************************************************)
EXTENDS Integers, Sequences, FiniteSets, TLC

\* ---------------------------------------------------------------- bounds
\* width of an address in bits (32 for IPv4 in the program)
AddrBits == 3
\* worker budget of the pool; 50 at ping-sweep.py:9, scaled down
MAX_WORKERS == 2
\* largest candidate sequence a sweep of the model is started on
MaxHosts == 3
\* number of sweep threads the model can start (slots 1..MaxSweeps)
MaxSweeps == 2

Sweeps == 1..MaxSweeps

RECURSIVE Pow2(_)
Pow2(n) == IF n = 0 THEN 1 ELSE 2 * Pow2(n - 1)

Addr == 0..(Pow2(AddrBits) - 1)

\* ------------------------------------------------------- text inputs
\* The text of the subnet entry: either unparsable or "addr/plen".
BadSubnet == [ok |-> FALSE, addr |-> 0, plen |-> 0]
SubnetText(a, p) == [ok |-> TRUE, addr |-> a, plen |-> p]

\* The text of a start/end entry after strip(): "", unparsable, or an address.
EmptyText == [kind |-> "empty", v |-> 0]
BadText == [kind |-> "malformed", v |-> 0]
AddrText(a) == [kind |-> "addr", v |-> a]

\* Python truthiness of a str: every non-empty string is true.
Truthy(t) == t.kind # "empty"

\* ------------------------------------------------ ipaddress.ip_network
\* number of addresses of a network of prefix length p
NetSize(p) == Pow2(AddrBits - p)

\* ip_network(subnet, strict=False): the host bits of the text are masked.
NetworkAddress(sub) == sub.addr - (sub.addr % NetSize(sub.plen))

BroadcastAddress(sub) == NetworkAddress(sub) + NetSize(sub.plen) - 1

\* hosts() without the special cases of the two longest prefixes
HostsAlwaysTrimmed(sub) ==
    [i \in 1..(NetSize(sub.plen) - 2) |-> NetworkAddress(sub) + i]

\* network.hosts(): all addresses for the two longest prefixes, otherwise
\* range(network + 1, broadcast), in ascending order.
Hosts(sub) ==
    IF sub.plen = AddrBits
      THEN << NetworkAddress(sub) >>
      ELSE IF sub.plen = AddrBits - 1
             THEN << NetworkAddress(sub), NetworkAddress(sub) + 1 >>
             ELSE [i \in 1..(NetSize(sub.plen) - 2) |-> NetworkAddress(sub) + i]

\* ------------------------------------------------------- get_ip_range
\* None (ok = FALSE) when anything fails to parse, else the filtered hosts.
NoneRange == [ok |-> FALSE, ips |-> << >>]

\* a filter that takes the two bounds in either order
InBoundsEitherOrder(ip, start, end) ==
    \/ start.v <= ip /\ ip <= end.v
    \/ end.v <= ip /\ ip <= start.v


InBounds(ip, start, end) == start.v <= ip /\ ip <= end.v

\* get_ip_range with the comparison start < ip < end
GetIpRangeExclusive(start_ip, end_ip, subnet) ==
    IF ~subnet.ok \/ start_ip.kind = "malformed" \/ end_ip.kind = "malformed"
      THEN NoneRange
      ELSE [ok |-> TRUE,
            ips |-> SelectSeq(Hosts(subnet),
                              LAMBDA ip : start_ip.v < ip /\ ip < end_ip.v)]


GetIpRange(start_ip, end_ip, subnet) ==
    IF ~subnet.ok \/ start_ip.kind = "malformed" \/ end_ip.kind = "malformed"
      THEN NoneRange
      ELSE [ok |-> TRUE,
            ips |-> SelectSeq(Hosts(subnet),
                              LAMBDA ip : InBounds(ip, start_ip, end_ip))]

\* testing "ip_range is None" instead of "not ip_range"
FalsyNoneOnly(r) == ~r.ok

\* Python "not ip_range": None and the empty list are both false.
Falsy(r) == ~r.ok \/ r.ips = << >>

\* start_sweep without the "if not ip_range" check of line 43
ResolveRangeUnchecked(subnet, start_ip, end_ip) ==
    IF Truthy(start_ip) /\ Truthy(end_ip)
      THEN [ok |-> TRUE, ips |-> GetIpRange(start_ip, end_ip, subnet).ips]
      ELSE IF ~subnet.ok
             THEN NoneRange
             ELSE [ok |-> TRUE, ips |-> Hosts(subnet)]

\* start_sweep lines 40-49: the candidate sequence, or ok = FALSE when a
\* ValueError is raised and reported.
ResolveRange(subnet, start_ip, end_ip) ==
    IF Truthy(start_ip) /\ Truthy(end_ip)
      THEN IF Falsy(GetIpRange(start_ip, end_ip, subnet))
             THEN NoneRange
             ELSE GetIpRange(start_ip, end_ip, subnet)
      ELSE IF ~subnet.ok
             THEN NoneRange
             ELSE [ok |-> TRUE, ips |-> Hosts(subnet)]

\* ------------------------------------------------------------ ping_host
\* What the environment does with one probe: the ping process exits 0, exits
\* non-zero, cannot be run at all (subprocess.run raises inside the try of
\* lines 15-23), or the call raises outside that handler (lines 12-14, or an
\* exception that is no Exception).
Returning == {"exit_zero", "exit_nonzero", "cannot_invoke"}
Outcomes == Returning \cup {"raises"}

NoResult == [raised |-> FALSE, ip |-> 0, is_up |-> FALSE]

\* ping_host with the test of the return code inverted
PingHostInverted(ip, o) ==
    IF o = "exit_zero" THEN [raised |-> FALSE, ip |-> ip, is_up |-> FALSE]
    ELSE IF o = "exit_nonzero" THEN [raised |-> FALSE, ip |-> ip, is_up |-> TRUE]
    ELSE IF o = "cannot_invoke" THEN [raised |-> FALSE, ip |-> ip, is_up |-> FALSE]
    ELSE [raised |-> TRUE, ip |-> ip, is_up |-> FALSE]

\* ping_host without the try/except around subprocess.run
PingHostNoHandler(ip, o) ==
    IF o = "exit_zero" THEN [raised |-> FALSE, ip |-> ip, is_up |-> TRUE]
    ELSE IF o = "exit_nonzero" THEN [raised |-> FALSE, ip |-> ip, is_up |-> FALSE]
    ELSE [raised |-> TRUE, ip |-> ip, is_up |-> FALSE]

\* the value of the future of ping_host(ip, count, timeout)
PingHost(ip, o) ==
    IF o = "exit_zero" THEN [raised |-> FALSE, ip |-> ip, is_up |-> TRUE]
    ELSE IF o = "exit_nonzero" THEN [raised |-> FALSE, ip |-> ip, is_up |-> FALSE]
    ELSE IF o = "cannot_invoke" THEN [raised |-> FALSE, ip |-> ip, is_up |-> FALSE]
    ELSE [raised |-> TRUE, ip |-> ip, is_up |-> FALSE]

\* ---------------------------------------------------------------- state
VARIABLES
    pc,                \* pc[s]: where sweep thread s is in threaded_sweep/start_sweep
    args,              \* args[s]: the (subnet, start_ip, end_ip) texts it was started with
    ip_range,          \* ip_range[s]: the resolved candidate sequence
    threads,           \* threads[s]: worker threads of the sweep's executor
    queue,             \* queue[s]: the executor's work queue (submitted, not started)
    fut,               \* fut[s][ip]: state and result of the future of candidate ip
    probe,             \* probe[s][ip]: what the environment did with the probe of ip
    early,             \* early[s]: futures already finished when as_completed was entered
    waiterq,           \* waiterq[s]: futures finished since, in finishing order, not yet yielded
    completions,       \* completions[s]: candidates in the order their probes returned
    responsive_hosts,  \* responsive_hosts[s]: the local list of line 56
    out,               \* out[s]: the lines sweep s wrote with update_output
    result_list,       \* the list `results` of main, shared with every sweep
    closed,            \* the main window was closed (root.mainloop() returned)
    hung               \* a candidate whose probe never returns, or NoHost

vars == << pc, args, ip_range, threads, queue, fut, probe, early, waiterq,
           completions, responsive_hosts, out, result_list, closed, hung >>

NoHost == 0 - 1

NoArgs == [subnet |-> BadSubnet, start_ip |-> EmptyText, end_ip |-> EmptyText]

NoFuture == [state |-> "none", res |-> NoResult]

Line(kind, n) == [kind |-> kind, n |-> n]

\* lines 51-54
Header == << Line("Pinging subnet", 0), Line("Ping count", 0),
             Line("Range", 0), Line("Starting sweep", 0) >>

\* lines 69-70
Footer(n) == << Line("Sweep complete", 0), Line("responded", n) >>

Range(seq) == {seq[i] : i \in DOMAIN seq}

Without(seq, x) == SelectSeq(seq, LAMBDA y : y # x)

\* the place of x in a sequence without duplicates that holds it
Pos(seq, x) == CHOOSE i \in DOMAIN seq : seq[i] = x

Candidates(s) == Range(ip_range[s])

InState(s, st) == {ip \in Addr : fut[s][ip].state = st}

\* probes in flight: ping_host calls started and not yet returned
InFlight(s) == InState(s, "running")

Finished(s) == InState(s, "finished")

\* the result lines of out[s], and the candidates they are about
IsResultLine(l) == l.kind \in {"up", "down"}

ResultLines(s) == SelectSeq(out[s], IsResultLine)

Recorded(s) == {l.n : l \in Range(ResultLines(s))}

\* futures as_completed still has to yield from its initial finished set
EarlyLeft(s) == early[s] \ Recorded(s)

InitRest(h) ==
    /\ ip_range = [s \in Sweeps |-> << >>]
    /\ threads = [s \in Sweeps |-> 0]
    /\ queue = [s \in Sweeps |-> << >>]
    /\ fut = [s \in Sweeps |-> [ip \in Addr |-> NoFuture]]
    /\ probe = [s \in Sweeps |-> [ip \in Addr |-> "none"]]
    /\ early = [s \in Sweeps |-> {}]
    /\ waiterq = [s \in Sweeps |-> << >>]
    /\ completions = [s \in Sweeps |-> << >>]
    /\ responsive_hosts = [s \in Sweeps |-> << >>]
    /\ out = [s \in Sweeps |-> << >>]
    /\ result_list = << >>
    /\ closed = FALSE
    /\ hung = h

InitWith(h) ==
    /\ pc = [s \in Sweeps |-> "idle"]
    /\ args = [s \in Sweeps |-> NoArgs]
    /\ InitRest(h)

Init == InitWith(NoHost)

\* ------------------------------------------------------- threaded_sweep
\* The "Start Ping Sweep" button: reads the entries, and starts a daemon
\* thread on start_sweep unless count or timeout is no integer.
ThreadedSweep(s, subnet, start_ip, end_ip, cfg_ok) ==
    /\ ~closed
    /\ pc[s] = "idle"
    /\ \A t \in Sweeps : t < s => pc[t] # "idle"
    /\ Len(ResolveRange(subnet, start_ip, end_ip).ips) <= MaxHosts
    /\ IF cfg_ok
         THEN /\ pc' = [pc EXCEPT ![s] = "validate"]
              /\ args' = [args EXCEPT ![s] = [subnet |-> subnet,
                                              start_ip |-> start_ip,
                                              end_ip |-> end_ip]]
         ELSE /\ pc' = [pc EXCEPT ![s] = "input_error"]
              /\ UNCHANGED args
    /\ UNCHANGED << ip_range, threads, queue, fut, probe, early, waiterq,
                    completions, responsive_hosts, out, result_list, closed, hung >>

\* ---------------------------------------------------------- start_sweep
\* lines 40-54: resolve the range; a ValueError is reported and the thread
\* returns, otherwise the four header lines are written.
Validate(s) ==
    /\ ~closed
    /\ pc[s] = "validate"
    /\ LET r == ResolveRange(args[s].subnet, args[s].start_ip, args[s].end_ip)
       IN IF r.ok
            THEN /\ pc' = [pc EXCEPT ![s] = "submit"]
                 /\ ip_range' = [ip_range EXCEPT ![s] = r.ips]
                 /\ out' = [out EXCEPT ![s] = Header]
            ELSE /\ pc' = [pc EXCEPT ![s] = "rejected"]
                 /\ UNCHANGED << ip_range, out >>
    /\ UNCHANGED << args, threads, queue, fut, probe, early, waiterq,
                    completions, responsive_hosts, result_list, closed, hung >>

\* a pool that starts a thread for every submitted work item
AdjustThreadCountUnbounded(n) == n + 1

\* ThreadPoolExecutor._adjust_thread_count: a submit adds a worker thread
\* while the pool has fewer than max_workers of them.
AdjustThreadCount(n) == IF n < MAX_WORKERS THEN n + 1 ELSE n

\* line 59: executor.submit(ping_host, ip, count, timeout) for the next ip of
\* ip_range; after the last one the thread goes on to as_completed.
Submit(s) ==
    /\ ~closed
    /\ pc[s] = "submit"
    /\ LET submitted == Len(queue[s]) + Cardinality(InFlight(s)) + Cardinality(Finished(s))
           ip == ip_range[s][submitted + 1]
       IN /\ submitted < Len(ip_range[s])
          /\ fut' = [fut EXCEPT ![s][ip] = [state |-> "queued", res |-> NoResult]]
          /\ queue' = [queue EXCEPT ![s] = Append(@, ip)]
          /\ threads' = [threads EXCEPT ![s] = AdjustThreadCount(@)]
          /\ pc' = [pc EXCEPT ![s] = IF submitted + 1 = Len(ip_range[s])
                                       THEN "as_completed" ELSE "submit"]
    /\ UNCHANGED << args, ip_range, probe, early, waiterq, completions,
                    responsive_hosts, out, result_list, closed, hung >>

\* a pool that starts a work item only when no other one runs
IdleWorkerSerial(s) == InFlight(s) = {}

\* a worker thread of the pool that runs no work item
IdleWorker(s) == Cardinality(InFlight(s)) < threads[s]

\* concurrent.futures.thread._worker: an idle worker takes the oldest work
\* item and calls ping_host. Workers are no daemon threads of the GUI: they
\* go on after the window is closed.
WorkerTake(s) ==
    /\ queue[s] # << >>
    /\ IdleWorker(s)
    /\ fut' = [fut EXCEPT ![s][Head(queue[s])].state = "running"]
    /\ queue' = [queue EXCEPT ![s] = Tail(@)]
    /\ UNCHANGED << pc, args, ip_range, threads, probe, early, waiterq,
                    completions, responsive_hosts, out, result_list, closed, hung >>

\* a worker that appends the responsive host to the sweep's list itself
ProbeReturnAppends(s, ip, o) ==
    /\ fut[s][ip].state = "running"
    /\ ip # hung
    /\ fut' = [fut EXCEPT ![s][ip] = [state |-> "finished", res |-> PingHost(ip, o)]]
    /\ probe' = [probe EXCEPT ![s][ip] = o]
    /\ completions' = [completions EXCEPT ![s] = Append(@, ip)]
    /\ waiterq' = [waiterq EXCEPT ![s] = IF pc[s] = "collect" THEN Append(@, ip) ELSE @]
    /\ responsive_hosts' = [responsive_hosts EXCEPT ![s] =
                               IF PingHost(ip, o).is_up THEN Append(@, ip) ELSE @]
    /\ UNCHANGED << pc, args, ip_range, threads, queue, early,
                    out, result_list, closed, hung >>

\* ping_host returns (or raises) in its worker: the future is finished and
\* the as_completed waiter, once installed, is told in finishing order.
ProbeReturn(s, ip, o) ==
    /\ fut[s][ip].state = "running"
    /\ ip # hung
    /\ fut' = [fut EXCEPT ![s][ip] = [state |-> "finished", res |-> PingHost(ip, o)]]
    /\ probe' = [probe EXCEPT ![s][ip] = o]
    /\ completions' = [completions EXCEPT ![s] = Append(@, ip)]
    /\ waiterq' = [waiterq EXCEPT ![s] = IF pc[s] = "collect" THEN Append(@, ip) ELSE @]
    /\ UNCHANGED << pc, args, ip_range, threads, queue, early,
                    responsive_hosts, out, result_list, closed, hung >>

\* line 61, as_completed(futures): the futures finished so far are set aside
\* to be yielded first, and a waiter is installed on the others.
AsCompleted(s) ==
    /\ ~closed
    /\ pc[s] = "as_completed"
    /\ early' = [early EXCEPT ![s] = Finished(s)]
    /\ pc' = [pc EXCEPT ![s] = "collect"]
    /\ UNCHANGED << args, ip_range, threads, queue, fut, probe, waiterq,
                    completions, responsive_hosts, out, result_list, closed, hung >>

\* an iteration over the futures that were finished at entry only
YieldsOnlyEarly(s, ip) == ip \in EarlyLeft(s)

\* iterating the futures in submission order instead of as_completed
YieldsInSubmissionOrder(s, ip) ==
    /\ ip \in Finished(s) \ Recorded(s)
    /\ \A k \in 1..(Pos(ip_range[s], ip) - 1) : ip_range[s][k] \in Recorded(s)

\* The future as_completed yields next: any of the initial finished set (a
\* Python set, iterated in no specified order) while one is left, then the
\* oldest of the waiter's list.
YieldsNext(s, ip) ==
    IF EarlyLeft(s) # {}
      THEN ip \in EarlyLeft(s)
      ELSE waiterq[s] # << >> /\ ip = Head(waiterq[s])

\* the loop body of lines 62-67 without its else: the No Response line is
\* written for every host
CollectNoElse(s, ip) ==
    /\ ~closed
    /\ pc[s] = "collect"
    /\ YieldsNext(s, ip)
    /\ waiterq' = [waiterq EXCEPT ![s] = Without(@, ip)]
    /\ LET res == fut[s][ip].res
       IN IF res.raised
            THEN /\ pc' = [pc EXCEPT ![s] = "unwind"]
                 /\ UNCHANGED << responsive_hosts, out >>
            ELSE /\ UNCHANGED pc
                 /\ IF res.is_up
                      THEN /\ responsive_hosts' =
                                [responsive_hosts EXCEPT ![s] = Append(@, res.ip)]
                           /\ out' = [out EXCEPT ![s] =
                                        @ \o << Line("up", res.ip), Line("down", res.ip) >>]
                      ELSE /\ UNCHANGED responsive_hosts
                           /\ out' = [out EXCEPT ![s] = Append(@, Line("down", res.ip))]
    /\ UNCHANGED << args, ip_range, threads, queue, fut, probe, early,
                    completions, result_list, closed, hung >>

\* lines 61-67, one iteration: future.result() re-raises what ping_host
\* raised, which leaves the loop and the with block; otherwise the verdict is
\* appended and written.
Collect(s, ip) ==
    /\ ~closed
    /\ pc[s] = "collect"
    /\ YieldsNext(s, ip)
    /\ waiterq' = [waiterq EXCEPT ![s] = Without(@, ip)]
    /\ LET res == fut[s][ip].res
       IN IF res.raised
            THEN /\ pc' = [pc EXCEPT ![s] = "unwind"]
                 /\ UNCHANGED << responsive_hosts, out >>
            ELSE /\ UNCHANGED pc
                 /\ IF res.is_up
                      THEN /\ responsive_hosts' =
                                [responsive_hosts EXCEPT ![s] = Append(@, res.ip)]
                           /\ out' = [out EXCEPT ![s] = Append(@, Line("up", res.ip))]
                      ELSE /\ UNCHANGED responsive_hosts
                           /\ out' = [out EXCEPT ![s] = Append(@, Line("down", res.ip))]
    /\ UNCHANGED << args, ip_range, threads, queue, fut, probe, early,
                    completions, result_list, closed, hung >>

\* The exception leaves the with block: shutdown(wait=True) joins the
\* workers, which first run every queued work item; then the thread dies.
Unwind(s) ==
    /\ ~closed
    /\ pc[s] = "unwind"
    /\ queue[s] = << >>
    /\ InFlight(s) = {}
    /\ pc' = [pc EXCEPT ![s] = "died"]
    /\ UNCHANGED << args, ip_range, threads, queue, fut, probe, early, waiterq,
                    completions, responsive_hosts, out, result_list, closed, hung >>

\* leaving the collection loop at the first recorded result
CompleteEarly(s) ==
    /\ ~closed
    /\ pc[s] = "collect"
    /\ Recorded(s) # {}
    /\ out' = [out EXCEPT ![s] = @ \o Footer(Len(responsive_hosts[s]))]
    /\ pc' = [pc EXCEPT ![s] = "clear"]
    /\ UNCHANGED << args, ip_range, threads, queue, fut, probe, early, waiterq,
                    completions, responsive_hosts, result_list, closed, hung >>

\* as_completed is exhausted when every future was yielded: the with block
\* is left and lines 69-70 are written.
Complete(s) ==
    /\ ~closed
    /\ pc[s] = "collect"
    /\ Recorded(s) = Candidates(s)
    /\ out' = [out EXCEPT ![s] = @ \o Footer(Len(responsive_hosts[s]))]
    /\ pc' = [pc EXCEPT ![s] = "clear"]
    /\ UNCHANGED << args, ip_range, threads, queue, fut, probe, early, waiterq,
                    completions, responsive_hosts, result_list, closed, hung >>

\* clearing the sweep's own list along with the caller's
ClearBoth(s) ==
    /\ pc[s] = "clear"
    /\ result_list' = << >>
    /\ responsive_hosts' = [responsive_hosts EXCEPT ![s] = << >>]
    /\ pc' = [pc EXCEPT ![s] = "extend"]
    /\ UNCHANGED << args, ip_range, threads, queue, fut, probe, early, waiterq,
                    completions, out, closed, hung >>

\* line 71
Clear(s) ==
    /\ pc[s] = "clear"
    /\ result_list' = << >>
    /\ pc' = [pc EXCEPT ![s] = "extend"]
    /\ UNCHANGED << args, ip_range, threads, queue, fut, probe, early, waiterq,
                    completions, responsive_hosts, out, closed, hung >>

\* line 72
Extend(s) ==
    /\ pc[s] = "extend"
    /\ result_list' = result_list \o responsive_hosts[s]
    /\ pc' = [pc EXCEPT ![s] = "done"]
    /\ UNCHANGED << args, ip_range, threads, queue, fut, probe, early, waiterq,
                    completions, responsive_hosts, out, closed, hung >>

\* ----------------------------------------------------------------- main
\* The window is closed: root.mainloop() (line 158) returns and the process
\* goes down. The sweep threads are daemon threads (line 89): they write no
\* further line to the destroyed widget; nothing hands their results over.
Close ==
    /\ ~closed
    /\ closed' = TRUE
    /\ UNCHANGED << pc, args, ip_range, threads, queue, fut, probe, early, waiterq,
                    completions, responsive_hosts, out, result_list, hung >>

\* export_results(results), lines 93-104: what the export reads, at the
\* moment it runs, is the shared list itself.
ExportSees == result_list

\* ------------------------------------------------------------ the inputs
SubnetTexts == {BadSubnet, SubnetText(0, AddrBits - 3), SubnetText(5, AddrBits - 2),
                SubnetText(6, AddrBits - 1), SubnetText(3, AddrBits)}

BoundTexts == {EmptyText, BadText} \cup {AddrText(a) : a \in {0, 1, 3, 7}}

\* ------------------------------------------------------- specifications
\* One sweep, every input, every outcome of a probe.
Next ==
    \/ \E subnet \in SubnetTexts, start_ip, end_ip \in BoundTexts, cfg_ok \in BOOLEAN :
          ThreadedSweep(1, subnet, start_ip, end_ip, cfg_ok)
    \/ Validate(1)
    \/ Submit(1)
    \/ WorkerTake(1)
    \/ \E ip \in Addr, o \in Outcomes : ProbeReturn(1, ip, o)
    \/ AsCompleted(1)
    \/ \E ip \in Addr : Collect(1, ip)
    \/ Unwind(1)
    \/ Complete(1)
    \/ Clear(1)
    \/ Extend(1)
    \/ Close

Spec == Init /\ [][Next]_vars

\* The same sweep under fair scheduling of its threads, on candidate
\* sequences of one, two and three hosts, with probes that return a verdict
\* or (the candidate hung) never return, and the window left open.
InitFair == \E h \in Addr \cup {NoHost} : InitWith(h)

NextFair ==
    \/ \E end_ip \in {AddrText(1), AddrText(3)} :
          ThreadedSweep(1, SubnetText(0, AddrBits - 3), AddrText(1), end_ip, TRUE)
    \/ ThreadedSweep(1, SubnetText(5, AddrBits - 2), EmptyText, EmptyText, TRUE)
    \/ Validate(1)
    \/ Submit(1)
    \/ WorkerTake(1)
    \/ \E ip \in Addr, o \in Returning : ProbeReturn(1, ip, o)
    \/ AsCompleted(1)
    \/ \E ip \in Addr : Collect(1, ip)
    \/ Complete(1)
    \/ Clear(1)
    \/ Extend(1)

\* The sweep thread and the pool's workers are operating-system threads:
\* none of them is starved while it can take a step.
Fairness ==
    /\ WF_vars(Validate(1))
    /\ WF_vars(Submit(1))
    /\ WF_vars(WorkerTake(1))
    /\ \A ip \in Addr : WF_vars(\E o \in Returning : ProbeReturn(1, ip, o))
    /\ WF_vars(AsCompleted(1))
    /\ WF_vars(\E ip \in Addr : Collect(1, ip))
    /\ WF_vars(Complete(1))
    /\ WF_vars(Clear(1))
    /\ WF_vars(Extend(1))

SpecFair == InitFair /\ [][NextFair]_vars /\ Fairness

\* Range resolution alone: a sweep thread started on any subnet text and any
\* pair of bound texts runs lines 40-54.
AllSubnetTexts == {BadSubnet} \cup {SubnetText(a, p) : a \in Addr, p \in 0..AddrBits}

AllBoundTexts == {EmptyText, BadText} \cup {AddrText(a) : a \in Addr}

InitResolve ==
    /\ InitRest(NoHost)
    /\ pc = [s \in Sweeps |-> IF s = 1 THEN "validate" ELSE "idle"]
    /\ \E subnet \in AllSubnetTexts, start_ip, end_ip \in AllBoundTexts :
          args = [s \in Sweeps |-> IF s = 1
                                     THEN [subnet |-> subnet, start_ip |-> start_ip,
                                           end_ip |-> end_ip]
                                     ELSE NoArgs]

NextResolve == Validate(1)

SpecResolve == InitResolve /\ [][NextResolve]_vars

\* Two sweeps started one after the other by the same button, which may
\* overlap: both write the same result_list.
TwoSubnetTexts == {BadSubnet, SubnetText(5, AddrBits - 2), SubnetText(3, AddrBits)}

Verdicts == {"exit_zero", "exit_nonzero"}

NextTwo ==
    \/ \E s \in {1, 2}, subnet \in TwoSubnetTexts :
          ThreadedSweep(s, subnet, EmptyText, EmptyText, TRUE)
    \/ \E s \in {1, 2} : Validate(s)
    \/ \E s \in {1, 2} : Submit(s)
    \/ \E s \in {1, 2} : WorkerTake(s)
    \/ \E s \in {1, 2}, ip \in Addr, o \in Verdicts : ProbeReturn(s, ip, o)
    \/ \E s \in {1, 2} : AsCompleted(s)
    \/ \E s \in {1, 2}, ip \in Addr : Collect(s, ip)
    \/ \E s \in {1, 2} : Complete(s)
    \/ \E s \in {1, 2} : Clear(s)
    \/ \E s \in {1, 2} : Extend(s)

SpecTwo == Init /\ [][NextTwo]_vars

\* ================================================================ claims

\* the sweep has passed validation and is (or was) scanning
Scanning(s) == pc[s] \in {"submit", "as_completed", "collect", "unwind", "died",
                          "clear", "extend", "done"}

\* the sweep thread ran start_sweep at least up to the end of validation
Validated(s) == Scanning(s) \/ pc[s] = "rejected"

\* nothing was handed to the executor and nothing was written
NothingStarted(s) ==
    /\ out[s] = << >>
    /\ threads[s] = 0
    /\ queue[s] = << >>
    /\ ip_range[s] = << >>
    /\ \A ip \in Addr : fut[s][ip].state = "none" /\ probe[s][ip] = "none"

\* C1: in every reachable state the number of probes in flight of a sweep is
\* at most the worker budget MAX_WORKERS, also with more candidates than
\* workers.
C1_InFlightBounded == \A s \in Sweeps : Cardinality(InFlight(s)) <= MAX_WORKERS

\* C1 witness: the pool is full while a further candidate waits in the queue.
C1_Witness ==
    /\ Cardinality(InFlight(1)) = MAX_WORKERS
    /\ queue[1] # << >>
    /\ Len(ip_range[1]) > MAX_WORKERS

\* "Sweep complete" was written or the result list was published
ReportedComplete(s) ==
    \/ Line("Sweep complete", 0) \in Range(out[s])
    \/ pc[s] \in {"extend", "done"}

NoDuplicates(seq) == \A i, j \in DOMAIN seq : i # j => seq[i] # seq[j]

\* C2: no candidate is probed twice or gets two result lines, only
\* candidates are probed, and once the sweep is reported complete every
\* candidate was probed once and has exactly one result line.
C2_ExactlyOnce ==
    \A s \in Sweeps :
       /\ NoDuplicates(completions[s])
       /\ NoDuplicates([i \in DOMAIN ResultLines(s) |-> ResultLines(s)[i].n])
       /\ Range(completions[s]) \subseteq Candidates(s)
       /\ Recorded(s) \subseteq Range(completions[s])
       /\ ReportedComplete(s) =>
             /\ Range(completions[s]) = Candidates(s)
             /\ Recorded(s) = Candidates(s)
             /\ Len(ResultLines(s)) = Len(ip_range[s])
             /\ queue[s] = << >> /\ InFlight(s) = {}

\* C2 witness: a published sweep over three candidates with both verdicts.
C2_Witness ==
    /\ pc[1] = "done"
    /\ Len(ip_range[1]) = 3
    /\ Line("up", ip_range[1][1]) \in Range(out[1])
    /\ Line("down", ip_range[1][2]) \in Range(out[1])

Dispatchable(s) == queue[s] # << >> /\ Cardinality(InFlight(s)) < MAX_WORKERS

\* every candidate but the hung one has its result line
OthersRecorded(s) == Candidates(s) \ {hung} \subseteq Recorded(s)

\* C4: whenever a candidate is queued and fewer than MAX_WORKERS probes are
\* in flight a worker is free to start it, and a sweep with one probe that
\* never returns still records every other candidate.
C4_WorkConserving ==
    /\ [](Dispatchable(1) => IdleWorker(1))
    /\ (pc[1] = "submit") ~> (pc[1] = "collect" /\ OthersRecorded(1))

\* C4 witness: the hung probe is still in flight and the two other
\* candidates are recorded.
C4_Witness ==
    /\ hung \in InFlight(1)
    /\ Len(ip_range[1]) = 3
    /\ OthersRecorded(1)
    /\ Cardinality(Recorded(1)) = 2

\* C5 as claimed: a sweep cancelled by its caller (the only way is to close
\* the window) has handed over a report of exactly the results recorded so
\* far.
C5_CancelledReportIsPartial ==
    \A s \in Sweeps :
       (closed /\ pc[s] \in {"submit", "as_completed", "collect"})
          => result_list = responsive_hosts[s]

\* C6: a probe whose ping process cannot be run gives the verdict down,
\* never an exception; it is recorded as down, and a sweep leaves its
\* collection loop by an exception only if some probe raised outside
\* ping_host's handler.
C6_InvocationFailureIsDown ==
    \A s \in Sweeps :
       /\ \A ip \in Addr : probe[s][ip] = "cannot_invoke" =>
             /\ fut[s][ip] = [state |-> "finished",
                              res |-> [raised |-> FALSE, ip |-> ip, is_up |-> FALSE]]
             /\ ip \in Recorded(s) => Line("down", ip) \in Range(out[s])
             /\ ip \notin Range(responsive_hosts[s])
       /\ pc[s] \in {"unwind", "died"} => \E ip \in Addr : probe[s][ip] = "raises"
       /\ (pc[s] = "done" /\ \A ip \in Candidates(s) : probe[s][ip] # "raises")
             => Recorded(s) = Candidates(s)

\* C6 witness: a published sweep whose first recorded candidate could not
\* be probed and was followed by a further result.
C6_Witness ==
    /\ pc[1] = "done"
    /\ Len(ResultLines(1)) >= 2
    /\ ResultLines(1)[1].kind = "down"
    /\ probe[1][ResultLines(1)[1].n] = "cannot_invoke"
    /\ ResultLines(1)[2].kind = "up"

\* C7 as claimed: a probe that raises is recorded as down and the sweep
\* goes on: no sweep thread is ever ended by a probe's exception.
C7_RaiseIsCaught ==
    \A s \in Sweeps :
       /\ pc[s] \notin {"unwind", "died"}
       /\ \A ip \in Addr :
             (probe[s][ip] = "raises" /\ pc[s] = "done")
                => Line("down", ip) \in Range(out[s])

\* the usable hosts of a network as the specification defines them:
\* network and broadcast address are left out of a network of more than two
\* addresses
HostSet(sub) ==
    IF NetSize(sub.plen) > 2
      THEN (NetworkAddress(sub) + 1)..(BroadcastAddress(sub) - 1)
      ELSE NetworkAddress(sub)..BroadcastAddress(sub)

BothGiven(a) == a.start_ip.kind # "empty" /\ a.end_ip.kind # "empty"

BothParsed(a) == a.start_ip.kind = "addr" /\ a.end_ip.kind = "addr"

\* InvalidSpec, InvalidBounds or EmptyRange
InvalidInput(a) ==
    \/ ~a.subnet.ok
    \/ /\ BothGiven(a)
       /\ \/ ~BothParsed(a)
          \/ a.start_ip.v > a.end_ip.v
          \/ ~\E h \in HostSet(a.subnet) : a.start_ip.v <= h /\ h <= a.end_ip.v

\* C8: a sweep started on a malformed network text, or on a start/end pair
\* that does not parse, is reversed or holds no host, is rejected with
\* nothing submitted and nothing written.
C8_ValidationBeforeProbing ==
    \A s \in Sweeps :
       (Validated(s) /\ InvalidInput(args[s]))
          => (pc[s] = "rejected" /\ NothingStarted(s))

\* C8 witness: a rejected sweep whose network parses and whose bound pair
\* parses but holds no host of it.
C8_Witness ==
    /\ pc[1] = "rejected"
    /\ args[1].subnet.ok
    /\ BothParsed(args[1])
    /\ args[1].start_ip.v <= args[1].end_ip.v

\* C9 as claimed: a sweep whose start or end address is no host of the
\* network never gets to scanning.
C9_BoundsInsideNetwork ==
    \A s \in Sweeps :
       (Scanning(s) /\ BothParsed(args[s]))
          => /\ args[s].start_ip.v \in HostSet(args[s].subnet)
             /\ args[s].end_ip.v \in HostSet(args[s].subnet)

\* C10: a sweep whose start address is above its end address is rejected
\* with nothing submitted and nothing written.
C10_ReversedBoundsRejected ==
    \A s \in Sweeps :
       (Validated(s) /\ BothParsed(args[s]) /\ args[s].start_ip.v > args[s].end_ip.v)
          => (pc[s] = "rejected" /\ NothingStarted(s))

\* C10 witness: a rejected sweep with reversed bounds that both are hosts
\* of its network.
C10_Witness ==
    /\ pc[1] = "rejected"
    /\ args[1].subnet.ok
    /\ BothParsed(args[1])
    /\ args[1].start_ip.v > args[1].end_ip.v
    /\ args[1].start_ip.v \in HostSet(args[1].subnet)
    /\ args[1].end_ip.v \in HostSet(args[1].subnet)

\* the bound pair of a holds no usable host of its network
HoldsNoHost(a) ==
    ~\E h \in HostSet(a.subnet) : a.start_ip.v <= h /\ h <= a.end_ip.v

\* C11: a sweep on a network that parses and a bound pair that parses but
\* holds no usable host of the network is rejected with an error; it never
\* scans an empty candidate sequence.
C11_EmptyRangeRejected ==
    \A s \in Sweeps :
       (Validated(s) /\ args[s].subnet.ok /\ BothParsed(args[s]) /\ HoldsNoHost(args[s]))
          => (pc[s] = "rejected" /\ NothingStarted(s))

\* C11 witness: a rejected sweep whose bounds both are the network address
\* of a network of more than two addresses.
C11_Witness ==
    /\ pc[1] = "rejected"
    /\ args[1].subnet.ok
    /\ NetSize(args[1].subnet.plen) > 2
    /\ args[1].start_ip = AddrText(NetworkAddress(args[1].subnet))
    /\ args[1].end_ip = args[1].start_ip

\* the code's test for "no bound pair": one of the two texts is empty
Unbounded(a) == ~BothGiven(a)

C12_WitnessLarge ==
    /\ pc[1] = "submit"
    /\ args[1].start_ip = EmptyText /\ args[1].end_ip = EmptyText
    /\ args[1].subnet.plen = 0
    /\ Len(ip_range[1]) = Pow2(AddrBits) - 2

StrictlyAscending(seq) == \A i, j \in DOMAIN seq : i < j => seq[i] < seq[j]

\* C13: the candidate sequence of every sweep that scans is strictly
\* ascending, and with a bound pair it holds exactly the usable hosts h of
\* the network with start <= h <= end.
C13_AscendingAndExact ==
    \A s \in Sweeps :
       Scanning(s) =>
          /\ StrictlyAscending(ip_range[s])
          /\ BothParsed(args[s]) =>
                Candidates(s) = {h \in HostSet(args[s].subnet) :
                                   args[s].start_ip.v <= h /\ h <= args[s].end_ip.v}

\* C13 witness: a bounded sweep of at least three candidates whose first
\* candidate is the start and whose last is the end address.
C13_Witness ==
    /\ pc[1] = "submit"
    /\ BothParsed(args[1])
    /\ Len(ip_range[1]) >= 3
    /\ ip_range[1][1] = args[1].start_ip.v
    /\ ip_range[1][Len(ip_range[1])] = args[1].end_ip.v

\* the sweep has left its collection loop normally
Completed(s) == pc[s] \in {"clear", "extend", "done"}

\* the candidates whose ping process exited with 0
UpHosts(s) == {ip \in Candidates(s) : probe[s][ip] = "exit_zero"}

\* C14: at completion the responsive list holds exactly the candidates
\* whose probe gave up, each once, the last line reports their number, and
\* the list published by the sweep is that list.
C14_ResponsiveExact ==
    \A s \in Sweeps :
       /\ Completed(s) =>
             /\ NoDuplicates(responsive_hosts[s])
             /\ Range(responsive_hosts[s]) = UpHosts(s)
             /\ out[s][Len(out[s])] = Line("responded", Cardinality(UpHosts(s)))
       /\ pc[s] = "done" => result_list = responsive_hosts[s]

\* C14 witness: the network of four addresses with two usable hosts, of
\* which only the first is up, published as a list of that one host.
C14_Witness ==
    /\ pc[1] = "done"
    /\ NetSize(args[1].subnet.plen) = 4
    /\ Len(ip_range[1]) = 2
    /\ probe[1][ip_range[1][1]] = "exit_zero"
    /\ probe[1][ip_range[1][2]] = "exit_nonzero"
    /\ result_list = << ip_range[1][1] >>

\* C14 second case: every probe is up and all candidates are published.
C14_WitnessAllUp ==
    /\ pc[1] = "done"
    /\ Len(ip_range[1]) = 3
    /\ Len(result_list) = 3

\* the hosts of the "Host Up" lines of a sweep, in their order
UpLines(s) ==
    LET ups == SelectSeq(out[s], LAMBDA l : l.kind = "up")
    IN [i \in DOMAIN ups |-> ups[i].n]

\* C15: the responsive list of a sweep is written by its collection loop
\* only, one append of the yielded up host per step; no step of a worker
\* (one that changes a future or the work queue) writes it, and it holds
\* every host that was written as up.
C15_SingleWriter ==
    /\ [](\A s \in Sweeps : responsive_hosts[s] = UpLines(s))
    /\ [][\A s \in Sweeps :
            responsive_hosts'[s] # responsive_hosts[s] =>
               /\ pc[s] = "collect"
               /\ fut' = fut /\ queue' = queue /\ completions' = completions
               /\ \E ip \in Finished(s) :
                     /\ YieldsNext(s, ip)
                     /\ responsive_hosts'[s] = Append(responsive_hosts[s], ip)]_vars

\* C15 witness: one up host is in the list while the probes of two further
\* candidates have returned and wait to be collected.
C15_Witness ==
    /\ Len(responsive_hosts[1]) = 1
    /\ Cardinality(Finished(1) \ Recorded(1)) = 2
    /\ \A ip \in Finished(1) \ Recorded(1) : probe[1][ip] = "exit_zero"

\* C16: the output of a sweep is its header, then one result line per
\* collected result (never two about one candidate), and, only once every
\* candidate has its line, the completion lines once, last, with the number
\* of the final responsive list.
C16_CallbacksOnce ==
    \A s \in Sweeps :
       /\ Len(ResultLines(s)) = Cardinality(Recorded(s))
       /\ Recorded(s) \subseteq Finished(s)
       /\ out[s] # << >> =>
             out[s] = Header \o ResultLines(s)
                        \o (IF Completed(s)
                              THEN Footer(Len(responsive_hosts[s]))
                              ELSE << >>)
       /\ Completed(s) => Len(ResultLines(s)) = Len(ip_range[s])

\* C16 witness: a completed sweep of three candidates: four header lines,
\* three result lines, two completion lines.
C16_Witness ==
    /\ pc[1] = "clear"
    /\ Len(ip_range[1]) = 3
    /\ Len(out[1]) = 9
    /\ out[1][8] = Line("Sweep complete", 0)

IsPrefix(a, b) == Len(a) <= Len(b) /\ \A i \in DOMAIN a : a[i] = b[i]

\* C17 as claimed: once a sweep has completed and handed over its report,
\* nothing changes the caller's list any more.
C17_ReportImmutable ==
    [][(\E s \in Sweeps : pc[s] = "done") => result_list' = result_list]_vars

\* C17 amended: the list of a sweep is empty before collection, only grows
\* during it and never changes after it; the caller's list is changed by
\* nothing but lines 71-72 of a sweep, a later sweep's included.
C17_GrowsThenFrozen ==
    /\ [](\A s \in Sweeps :
            pc[s] \in {"idle", "input_error", "validate", "rejected", "submit",
                       "as_completed"} => responsive_hosts[s] = << >>)
    /\ [][/\ \A s \in Sweeps :
               /\ IsPrefix(responsive_hosts[s], responsive_hosts'[s])
               /\ Completed(s) => responsive_hosts'[s] = responsive_hosts[s]
          /\ result_list' # result_list =>
               \E t \in Sweeps :
                  \/ pc[t] = "clear" /\ pc'[t] = "extend" /\ result_list' = << >>
                  \/ /\ pc[t] = "extend" /\ pc'[t] = "done"
                     /\ result_list' = result_list \o responsive_hosts[t]]_vars

\* C17 witness: both sweeps are done; the list the first one had handed
\* over was replaced by the second one's.
C17_Witness ==
    /\ pc[1] = "done" /\ pc[2] = "done"
    /\ responsive_hosts[1] # << >>
    /\ responsive_hosts[2] # << >>
    /\ responsive_hosts[1] # responsive_hosts[2]
    /\ result_list = responsive_hosts[2]

\* C18 as claimed: when both sweeps have finished, the shared list is the
\* responsive list of one of them.
C18_OneSweepsList ==
    (pc[1] = "done" /\ pc[2] = "done")
       => result_list \in {responsive_hosts[1], responsive_hosts[2]}

C20_SweepTerminates ==
    (pc[1] = "submit" /\ hung \notin Candidates(1))
       ~> (/\ pc[1] = "done"
           /\ Recorded(1) = Candidates(1)
           /\ queue[1] = << >> /\ InFlight(1) = {}
           /\ result_list = responsive_hosts[1])

\* C20 witness: a finished sweep of more candidates than workers, none hung.
C20_Witness ==
    /\ pc[1] = "done"
    /\ hung = NoHost
    /\ Len(ip_range[1]) > MAX_WORKERS
    /\ Recorded(1) = Candidates(1)
    /\ result_list = responsive_hosts[1]

====
